---- MODULE Spec2Model ----
(***************************************************************************)
(* Model of event_reminder_bot.py: the per-user conversation (aiogram FSM  *)
(* state + data), the three MongoDB collections (users, categories,        *)
(* events), the handlers registered on the dispatcher and the background   *)
(* reminder_task.                                                          *)
(*                                                                         *)
(* Time is counted in minutes after 2099-01-01 10:00 UTC.  A call that the *)
(* code wraps in try/except may raise (its outcome is an input of the      *)
(* action); a call outside any try block returns normally, except in       *)
(* SpecScan, where the database reads of reminder_task may raise too.      *)
(*                                                                         *)
(* Spec        the handlers and reminder_task from an empty database       *)
(* SpecStored  the query handlers over a database that holds events        *)
(* SpecScan    reminder_task over a database that holds events             *)
(* SpecOverlap process_category with overlapping invocations               *)
(***************************************************************************)
EXTENDS Integers, Sequences, FiniteSets, TLC

\* ---------------------------------------------------------------- bounds
MaxNow == 2
MaxEvents == 1
MaxSends == 2
MaxOpen == 1

\* timedelta(minutes=5) of reminder_task
LOOKAHEAD == 5

Users == {1, 2}

\* ------------------------------------------------------------ input texts
NoText == ""
StartText == "/start"
CreateEventText == "Create Event"
UpcomingEventsText == "Upcoming Events"
StatisticsText == "Statistics"
CategoriesText == "Categories"
MenuTexts == {CreateEventText, UpcomingEventsText, StatisticsText, CategoriesText}
TitleText == "Team Sync"
DescriptionText == "Weekly"

Minutes == 0..59

\* strftime('%Y-%m-%d %H:%M') of the instant t minutes after 2099-01-01 10:00
Fmt(t) ==
    IF t < 10 THEN "2099-01-01 10:0" \o ToString(t)
    ELSE "2099-01-01 10:" \o ToString(t)

\* the texts "YYYY-MM-DD HH:MM", "...Z" and "...+00:01" of every minute
NaiveText == [w \in Minutes |-> Fmt(w)]
UtcText == [w \in Minutes |-> Fmt(w) \o "Z"]
OffsetText == [w \in Minutes |-> Fmt(w) \o "+00:01"]

\* the date-time texts a user types: without offset, with Z, with +00:01
DateTexts == {NaiveText[1], UtcText[1], OffsetText[8]}

\* dateutil.parser.parse: a text without offset gives a naive datetime, a
\* text with Z or +00:01 an aware one, anything else raises ParserError
\* (a ValueError)
parse_date(text) ==
    IF \E w \in Minutes : text = NaiveText[w]
    THEN [ok |-> TRUE, aware |-> FALSE,
          wall |-> CHOOSE w \in Minutes : text = NaiveText[w], off |-> 0]
    ELSE IF \E w \in Minutes : text = UtcText[w]
    THEN [ok |-> TRUE, aware |-> TRUE,
          wall |-> CHOOSE w \in Minutes : text = UtcText[w], off |-> 0]
    ELSE IF \E w \in Minutes : text = OffsetText[w]
    THEN [ok |-> TRUE, aware |-> TRUE,
          wall |-> CHOOSE w \in Minutes : text = OffsetText[w], off |-> 1]
    ELSE [ok |-> FALSE, aware |-> FALSE, wall |-> 0, off |-> 0]

\* the UTC instant of an aware datetime (what comparison with
\* datetime.now(pytz.UTC) and the BSON encoding of insert_one use)
ToUTC(dt) == dt.wall - dt.off

\* ------------------------------------------------------------------ state
VARIABLES
    now,          \* datetime.now(pytz.UTC)
    conv,         \* FSMContext of each user: [state, data]
    users,        \* db.users
    categories,   \* db.categories, _id = index
    events,       \* db.events, _id = index
    sent,         \* reminders delivered by bot.send_message, per event _id
    scanPc,       \* position of reminder_task
    scanQueue,    \* the events list reminder_task iterates over
    out,          \* what the last step sent to the user (or logged)
    shown,        \* the users who have been sent a category keyboard
    pending       \* process_category invocations suspended at an await

vars == <<now, conv, users, categories, events, sent, scanPc, scanQueue, out,
          shown, pending>>

\* states of CreateEventForm, the ad-hoc "add_category" state and no state
Idle == "None"
AwaitingTitle == "title"
AwaitingDescription == "description"
AwaitingDateTime == "date_time"
AwaitingCategory == "category"
AddCategory == "add_category"

Unset == "<unset>"
UnsetDate == [wall |-> -1, off |-> 0]
EmptyData == [title |-> Unset, description |-> Unset, date_time |-> UnsetDate]

\* state.clear(): no state, no data
Cleared == [state |-> Idle, data |-> EmptyData]

Init ==
    /\ now = 0
    /\ conv = [u \in Users |-> Cleared]
    /\ users = <<>>
    /\ categories = <<>>
    /\ events = <<>>
    /\ sent = <<>>
    /\ scanPc = "query"
    /\ scanQueue = <<>>
    /\ out = [text |-> "", list |-> <<>>]
    /\ shown = {}
    /\ pending = <<>>

\* a step that sends nothing
Silent == out' = [text |-> "", list |-> <<>>]

\* message.answer(text) / callback.message.answer(text) / callback.answer(text)
Reply(u, text) == out' = [text |-> text, list |-> <<>>]

\* an exception that leaves the handler: the dispatcher logs it, nothing is
\* sent to the user
Raise(u, exc) == out' = [text |-> exc, list |-> <<>>]

\* ------------------------------------------------------- persistence layer
default_categories == <<"Work", "Personal", "Health", "Other">>

\* mutant of UpsertCategory: insert_one instead of an upsert
M_UpsertCategory_Insert(cats, u, name) ==
    Append(cats, [user_id |-> u, name |-> name])

\* update_one({"user_id", "name"}, {"$set": {"name"}}, upsert=True)
UpsertCategory(cats, u, name) ==
    IF \E i \in 1..Len(cats) : cats[i].user_id = u /\ cats[i].name = name
    THEN cats
    ELSE Append(cats, [user_id |-> u, name |-> name])

RECURSIVE EnsureDefaults(_, _, _)
EnsureDefaults(cats, u, i) ==
    IF i > Len(default_categories) THEN cats
    ELSE EnsureDefaults(UpsertCategory(cats, u, default_categories[i]), u, i + 1)

\* db.users.update_one({"user_id"}, {"$set": ...}, upsert=True)
UpsertUser(us, u) ==
    IF \E i \in 1..Len(us) : us[i].user_id = u
    THEN us
    ELSE Append(us, [user_id |-> u])

register_user(u) ==
    /\ users' = UpsertUser(users, u)
    /\ categories' = EnsureDefaults(categories, u, 1)

\* mutant of NewEvent: the event is stored as already notified
M_NewEvent_Notified(user_id, title, description, date_time, category_id) ==
    [user_id |-> user_id,
     title |-> title,
     description |-> description,
     date_time |-> ToUTC(date_time),
     category_id |-> category_id,
     created_at |-> now,
     notified |-> TRUE]

\* the document create_event inserts
NewEvent(user_id, title, description, date_time, category_id) ==
    [user_id |-> user_id,
     title |-> title,
     description |-> description,
     date_time |-> ToUTC(date_time),
     category_id |-> category_id,
     created_at |-> now,
     notified |-> FALSE]

\* mutant of create_event: title and description change places
M_create_event_Swapped(user_id, title, description, date_time, category_id) ==
    /\ events' = Append(events,
                        NewEvent(user_id, description, title, date_time, category_id))
    /\ sent' = Append(sent, 0)

create_event(user_id, title, description, date_time, category_id) ==
    /\ events' = Append(events,
                        NewEvent(user_id, title, description, date_time, category_id))
    /\ sent' = Append(sent, 0)

\* db.categories.find_one({"_id": id})
CategoryExists(id) == id \in 1..Len(categories)

\* ------------------------------------------------------- keyboards, inputs
CatData(id) == "cat_" \o ToString(id)
AddCategoryData == "add_category"

\* callback.data.split("_")[1]
CategoryIdOf(data) == CHOOSE id \in 1..Len(categories) : data = CatData(id)

\* get_category_keyboard: callback data of the buttons shown to the user
get_category_keyboard(u) ==
    {CatData(i) : i \in {j \in 1..Len(categories) : categories[j].user_id = u}}
        \cup {AddCategoryData}

\* a message of a private chat always names its sender
FromUser == {TRUE}
Messages(texts) == [text : texts, from_user : FromUser]
\* the buttons the modelled users press, once a keyboard has been sent to
\* them: "Work" and "add category"
PressedNames == {"Work"}
Pressed(u) ==
    {d \in get_category_keyboard(u) :
        \/ d = AddCategoryData
        \/ \E i \in 1..Len(categories) :
              d = CatData(i) /\ categories[i].name \in PressedNames}
Callbacks(u) ==
    IF u \in shown THEN [data : Pressed(u), has_message : BOOLEAN] ELSE {}

\* ------------------------------------------------------------- dispatcher
\* mutant of Route: the state handlers are registered before the menu handlers
M_Route_StateHandlersFirst(u, m) ==
    IF m.text = StartText THEN "start_command"
    ELSE IF conv[u].state = AwaitingTitle THEN "process_title"
    ELSE IF conv[u].state = AwaitingDescription THEN "process_description"
    ELSE IF conv[u].state = AwaitingDateTime THEN "process_date_time"
    ELSE IF m.text = CreateEventText THEN "create_event_start"
    ELSE IF m.text = UpcomingEventsText THEN "upcoming_events"
    ELSE IF m.text = StatisticsText THEN "statistics"
    ELSE IF m.text = CategoriesText THEN "categories"
    ELSE "process_category_name"

\* dp.message handlers are tried in registration order; the first whose
\* filters pass handles the message
Route(u, m) ==
    IF m.text = StartText THEN "start_command"
    ELSE IF m.text = CreateEventText THEN "create_event_start"
    ELSE IF m.text = UpcomingEventsText THEN "upcoming_events"
    ELSE IF m.text = StatisticsText THEN "statistics"
    ELSE IF m.text = CategoriesText THEN "categories"
    ELSE IF conv[u].state = AwaitingTitle THEN "process_title"
    ELSE IF conv[u].state = AwaitingDescription THEN "process_description"
    ELSE IF conv[u].state = AwaitingDateTime THEN "process_date_time"
    ELSE "process_category_name"

\* ------------------------------------------------------------ start, menu
start_command(u, m) ==
    /\ Route(u, m) = "start_command"
    /\ conv' = [conv EXCEPT ![u] = Cleared]
    /\ IF ~m.from_user
       THEN /\ Reply(u, "Error: User information not available.")
            /\ UNCHANGED <<users, categories>>
       ELSE /\ register_user(u)
            /\ Reply(u, "Welcome to the Event Reminder Bot!")
    /\ UNCHANGED <<now, events, sent, scanPc, scanQueue, shown, pending>>

create_event_start(u, m) ==
    /\ Route(u, m) = "create_event_start"
    /\ conv' = [conv EXCEPT ![u] = [state |-> AwaitingTitle, data |-> EmptyData]]
    /\ Reply(u, "Enter the event title:")
    /\ UNCHANGED <<now, users, categories, events, sent, scanPc, scanQueue, shown, pending>>

\* mutant of UpcomingIds: $gt instead of $gte
M_UpcomingIds_Strict(u) ==
    {i \in 1..Len(events) :
        /\ events[i].user_id = u
        /\ events[i].date_time > now
        /\ events[i].notified = FALSE}

\* find({"user_id", "date_time": {"$gte": now}, "notified": False})
UpcomingIds(u) ==
    {i \in 1..Len(events) :
        /\ events[i].user_id = u
        /\ events[i].date_time >= now
        /\ events[i].notified = FALSE}

\* mutant of SortByDateTime: no sort, the documents come in _id order
RECURSIVE M_SortByDateTime_Unsorted(_)
M_SortByDateTime_Unsorted(ids) ==
    IF ids = {} THEN <<>>
    ELSE LET first == CHOOSE i \in ids : \A j \in ids : i <= j
         IN <<first>> \o M_SortByDateTime_Unsorted(ids \ {first})

\* .sort("date_time", 1): ascending, equal keys in _id order
RECURSIVE SortByDateTime(_)
SortByDateTime(ids) ==
    IF ids = {} THEN <<>>
    ELSE LET first == CHOOSE i \in ids :
                 \A j \in ids :
                     \/ events[i].date_time < events[j].date_time
                     \/ events[i].date_time = events[j].date_time /\ i <= j
         IN <<first>> \o SortByDateTime(ids \ {first})

get_upcoming_events(u) == SortByDateTime(UpcomingIds(u))

\* one block of the upcoming-events response
Entry(e) ==
    [title |-> e.title,
     category |-> categories[e.category_id].name,
     time |-> Fmt(e.date_time),
     description |-> e.description]

\* the for loop of upcoming_events: events whose category is not found are
\* left out
RECURSIVE Response(_)
Response(ids) ==
    IF ids = <<>> THEN <<>>
    ELSE LET e == events[Head(ids)]
         IN (IF CategoryExists(e.category_id) THEN <<Entry(e)>> ELSE <<>>)
                \o Response(Tail(ids))

upcoming_events(u, m) ==
    /\ Route(u, m) = "upcoming_events"
    /\ conv' = [conv EXCEPT ![u] = Cleared]
    /\ IF ~m.from_user
       THEN Reply(u, "Error: User information not available.")
       ELSE LET evs == get_upcoming_events(u)
            IN IF evs = <<>>
               THEN Reply(u, "No upcoming events. Create one with 'Create Event'!")
               ELSE out' = [text |-> "Upcoming Events:", list |-> Response(evs)]
    /\ UNCHANGED <<now, users, categories, events, sent, scanPc, scanQueue, shown, pending>>

\* mutant of start_of_month: the last 31 days instead of the calendar month
M_start_of_month_Rolling(t) == t - (31 * 24 * 60)

\* now.replace(day=1, hour=0, minute=0, ...): minute 0 of the model is
\* 2099-01-01 10:00, 600 minutes into a month of 31 days
start_of_month(t) == t - ((t + 600) % (31 * 24 * 60))

\* count_documents({"user_id", "created_at": {"$gte": start_of_month}})
events_this_month(u) ==
    Cardinality({i \in 1..Len(events) :
                    /\ events[i].user_id = u
                    /\ events[i].created_at >= start_of_month(now)})

\* $match user_id, $group by category_id with count
GroupCount(u, c) ==
    Cardinality({i \in 1..Len(events) :
                    events[i].user_id = u /\ events[i].category_id = c})

\* $sort count -1, $limit 1: a group with the highest count (which of several
\* is not determined)
Groups(u) ==
    {events[i].category_id : i \in {j \in 1..Len(events) : events[j].user_id = u}}

TopGroups(u) ==
    {c \in Groups(u) : \A d \in Groups(u) : GroupCount(u, d) <= GroupCount(u, c)}

\* the result of get_statistics when the aggregation's first group is c
\* ($lookup + $unwind drop a group whose category document is missing)
Stats(u, c) ==
    [events_this_month |-> events_this_month(u),
     most_used_category |-> IF CategoryExists(c) THEN categories[c].name ELSE "None",
     most_used_count |-> IF CategoryExists(c) THEN GroupCount(u, c) ELSE 0]

get_statistics(u) ==
    IF TopGroups(u) = {} THEN {Stats(u, 0)}
    ELSE {Stats(u, c) : c \in TopGroups(u)}

statistics(u, m) ==
    /\ Route(u, m) = "statistics"
    /\ conv' = [conv EXCEPT ![u] = Cleared]
    /\ IF ~m.from_user
       THEN Reply(u, "Error: User information not available.")
       ELSE \E stats \in get_statistics(u) :
               out' = [text |-> "Statistics:", list |-> <<stats>>]
    /\ UNCHANGED <<now, users, categories, events, sent, scanPc, scanQueue, shown, pending>>

categories_menu(u, m) ==
    /\ Route(u, m) = "categories"
    /\ conv' = [conv EXCEPT ![u] = Cleared]
    /\ IF ~m.from_user
       THEN Reply(u, "Error: User information not available.")
       ELSE Reply(u, "Select a category or add a new one:")
    /\ IF ~m.from_user
       THEN UNCHANGED shown
       ELSE shown' = shown \cup {u}
    /\ UNCHANGED <<now, users, categories, events, sent, scanPc, scanQueue, pending>>

\* ------------------------------------------------- create-event FSM handlers
\* mutant of update_data: the value is stored under "description"
M_update_data_WrongKey(u, key, value) ==
    [conv[u].data EXCEPT !["description"] = value]

\* state.update_data(key=value)
update_data(u, key, value) == [conv[u].data EXCEPT ![key] = value]

process_title(u, m) ==
    /\ Route(u, m) = "process_title"
    /\ IF m.text = NoText
       THEN /\ Reply(u, "Title cannot be empty. Please enter a title:")
            /\ UNCHANGED conv
       ELSE /\ conv' = [conv EXCEPT ![u] =
                           [state |-> AwaitingDescription,
                            data |-> update_data(u, "title", m.text)]]
            /\ Reply(u, "Enter the event description:")
    /\ UNCHANGED <<now, users, categories, events, sent, scanPc, scanQueue, shown, pending>>

process_description(u, m) ==
    /\ Route(u, m) = "process_description"
    /\ IF m.text = NoText
       THEN /\ Reply(u, "Description cannot be empty. Please enter a description:")
            /\ UNCHANGED conv
       ELSE /\ conv' = [conv EXCEPT ![u] =
                           [state |-> AwaitingDateTime,
                            data |-> update_data(u, "description", m.text)]]
            /\ Reply(u, "Enter the event date and time (e.g., 2025-06-15 14:30):")
    /\ UNCHANGED <<now, users, categories, events, sent, scanPc, scanQueue, shown, pending>>

\* mutant of Compare: the check against now is missing
M_Compare_NoPastCheck(dt) ==
    IF ~dt.aware THEN "TypeError" ELSE "ok"

\* date_time < datetime.now(pytz.UTC): comparing a naive datetime with an
\* aware one raises TypeError
Compare(dt) ==
    IF ~dt.aware THEN "TypeError"
    ELSE IF ToUTC(dt) < now THEN "past"
    ELSE "ok"

process_date_time(u, m) ==
    /\ Route(u, m) = "process_date_time"
    /\ LET date_time == parse_date(m.text)
       IN IF m.text = NoText
          THEN /\ Reply(u, "Date and time cannot be empty. Use YYYY-MM-DD HH:MM")
               /\ UNCHANGED conv
          ELSE IF ~date_time.ok
          THEN \* except ValueError
               /\ Reply(u, "Invalid date format. Use YYYY-MM-DD HH:MM")
               /\ UNCHANGED conv
          ELSE IF Compare(date_time) = "TypeError"
          THEN \* not a ValueError: leaves the handler
               /\ Raise(u, "TypeError")
               /\ UNCHANGED conv
          ELSE IF Compare(date_time) = "past"
          THEN /\ Reply(u, "Please enter a future date and time:")
               /\ UNCHANGED conv
          ELSE IF ~m.from_user
          THEN /\ Reply(u, "Error: User information not available.")
               /\ conv' = [conv EXCEPT ![u] = Cleared]
          ELSE /\ conv' = [conv EXCEPT ![u] =
                              [state |-> AwaitingCategory,
                               data |-> update_data(u, "date_time",
                                            [wall |-> date_time.wall,
                                             off |-> date_time.off])]]
               /\ Reply(u, "Select a category:")
    \* reply_markup=keyboard goes out with "Select a category:"
    /\ shown' = IF conv'[u].state = AwaitingCategory THEN shown \cup {u} ELSE shown
    /\ UNCHANGED <<now, users, categories, events, sent, scanPc, scanQueue, pending>>

IsCatData(data) == \E id \in 1..Len(categories) : data = CatData(id)

\* data["title"], data["description"], data["date_time"] are all present
\* (a missing key raises KeyError inside the try block)
HasKeys(data) ==
    /\ data.title # Unset
    /\ data.description # Unset
    /\ data.date_time # UnsetDate

\* createOk: db.events.insert_one returned; answerOk: the confirmation was
\* sent.  Either failure is caught by "except Exception"
process_category(u, cb, createOk, answerOk) ==
    /\ IsCatData(cb.data)
    /\ conv[u].state = AwaitingCategory
    /\ IF ~cb.has_message
       THEN /\ Reply(u, "Error: Invalid callback data.")
            /\ UNCHANGED <<conv, events, sent>>
       ELSE LET category_id == CategoryIdOf(cb.data)
                data == conv[u].data
            IN /\ IF HasKeys(data) /\ createOk
                  THEN /\ create_event(u, data.title, data.description,
                                       data.date_time, category_id)
                       /\ IF answerOk
                          THEN Reply(u, "Event created successfully!")
                          ELSE Reply(u, "Failed to create event. Please try again.")
                  ELSE /\ UNCHANGED <<events, sent>>
                       /\ Reply(u, "Failed to create event. Please try again.")
               /\ conv' = [conv EXCEPT ![u] = Cleared]
    /\ UNCHANGED <<now, users, categories, scanPc, scanQueue, shown, pending>>

\* ------------------------------------------------------ category management
\* mutant of add_category_start: set_state(CreateEventForm.category)
M_add_category_start_Category(u, cb) ==
    /\ cb.data = AddCategoryData
    /\ IF ~cb.has_message
       THEN /\ Reply(u, "Error: Message not available.")
            /\ UNCHANGED conv
       ELSE /\ Reply(u, "Enter the new category name:")
            /\ conv' = [conv EXCEPT ![u].state = AwaitingCategory]
    /\ UNCHANGED <<now, users, categories, events, sent, scanPc, scanQueue, shown, pending>>

add_category_start(u, cb) ==
    /\ cb.data = AddCategoryData
    /\ IF ~cb.has_message
       THEN /\ Reply(u, "Error: Message not available.")
            /\ UNCHANGED conv
       ELSE /\ Reply(u, "Enter the new category name:")
            /\ conv' = [conv EXCEPT ![u].state = AddCategory]
    /\ UNCHANGED <<now, users, categories, events, sent, scanPc, scanQueue, shown, pending>>

\* the filter lambda message: message.state == "add_category": a Message has
\* the fields of the Telegram message and no attribute "state"
StateFilter(m) ==
    IF "state" \notin DOMAIN m THEN "AttributeError"
    ELSE IF m.state = AddCategory THEN "pass"
    ELSE "reject"

\* message.text.strip()
strip(text) == IF text = " " THEN "" ELSE text

process_category_name(u, m) ==
    /\ Route(u, m) = "process_category_name"
    /\ IF StateFilter(m) = "AttributeError"
       THEN \* the filter raises: the update is dropped, the error logged
            /\ Raise(u, "AttributeError")
            /\ UNCHANGED <<conv, categories>>
       ELSE IF StateFilter(m) = "reject"
       THEN Silent /\ UNCHANGED <<conv, categories>>
       ELSE IF m.text = NoText \/ strip(m.text) = ""
       THEN /\ Reply(u, "Category name cannot be empty. Try again:")
            /\ UNCHANGED <<conv, categories>>
       ELSE IF ~m.from_user
       THEN /\ Reply(u, "Error: User information not available.")
            /\ conv' = [conv EXCEPT ![u] = Cleared]
            /\ UNCHANGED categories
       ELSE \E insertOk \in BOOLEAN :
               /\ IF insertOk
                  THEN /\ categories' = Append(categories,
                               [user_id |-> u, name |-> strip(m.text)])
                       /\ Reply(u, "Category added successfully!")
                  ELSE /\ UNCHANGED categories
                       /\ Reply(u, "Failed to add category. Please try again.")
               /\ conv' = [conv EXCEPT ![u] = Cleared]
    /\ UNCHANGED <<now, users, events, sent, scanPc, scanQueue, shown, pending>>

\* ------------------------------------------------------------ reminder_task
\* mutant of DueIds: the query does not filter on notified
M_DueIds_IgnoreNotified ==
    {i \in 1..Len(events) : events[i].date_time <= now + LOOKAHEAD}

\* mutant of DueIds: the lookahead is missing
M_DueIds_NoLookahead ==
    {i \in 1..Len(events) :
        events[i].date_time <= now /\ events[i].notified = FALSE}

\* find({"date_time": {"$lte": now + 5 min}, "notified": False}).to_list(None)
DueIds ==
    {i \in 1..Len(events) :
        events[i].date_time <= now + LOOKAHEAD /\ events[i].notified = FALSE}

RECURSIVE InIdOrder(_)
InIdOrder(ids) ==
    IF ids = {} THEN <<>>
    ELSE LET first == CHOOSE i \in ids : \A j \in ids : i <= j
         IN <<first>> \o InIdOrder(ids \ {first})

reminder_query ==
    /\ scanPc = "query"
    /\ scanQueue' = InIdOrder(DueIds)
    /\ scanPc' = "loop"
    /\ Silent
    /\ UNCHANGED <<now, conv, users, categories, events, sent, shown, pending>>

\* mutant of reminder_event: the notified update precedes the delivery
M_reminder_event_MarksFirst(sendOk, updateOk) ==
    /\ scanPc = "loop"
    /\ scanQueue # <<>>
    /\ LET id == Head(scanQueue)
           event == events[id]
       IN /\ IF CategoryExists(event.category_id) /\ updateOk
             THEN /\ events' = [events EXCEPT ![id].notified = TRUE]
                  /\ IF sendOk
                     THEN sent' = [sent EXCEPT ![id] = @ + 1]
                     ELSE UNCHANGED sent
             ELSE UNCHANGED <<events, sent>>
    /\ scanQueue' = Tail(scanQueue)
    /\ Silent
    /\ UNCHANGED <<now, conv, users, categories, scanPc, shown, pending>>

\* one iteration of "for event in events".  sendOk: bot.send_message
\* returned; updateOk: update_one returned.  Either failure is caught and
\* logged
reminder_event(sendOk, updateOk) ==
    /\ scanPc = "loop"
    /\ scanQueue # <<>>
    /\ LET id == Head(scanQueue)
           event == events[id]
       IN /\ IF CategoryExists(event.category_id) /\ sendOk
             THEN /\ sent' = [sent EXCEPT ![id] = @ + 1]
                  /\ IF updateOk
                     THEN events' = [events EXCEPT ![id].notified = TRUE]
                     ELSE UNCHANGED events
             ELSE UNCHANGED <<events, sent>>
    /\ scanQueue' = Tail(scanQueue)
    /\ Silent
    /\ UNCHANGED <<now, conv, users, categories, scanPc, shown, pending>>

\* await asyncio.sleep(60), then the next cycle
reminder_sleep ==
    /\ scanPc = "loop"
    /\ scanQueue = <<>>
    /\ scanPc' = "query"
    /\ Silent
    /\ UNCHANGED <<now, conv, users, categories, events, sent, scanQueue, shown, pending>>

\* the clock advances by one minute
Tick ==
    /\ now' = now + 1
    /\ Silent
    /\ UNCHANGED <<conv, users, categories, events, sent, scanPc, scanQueue, shown, pending>>

\* ------------------------------------------------------------ specification
CommandTexts == {StartText} \cup MenuTexts
TitleInputs == {NoText, TitleText} \cup CommandTexts
DescriptionInputs == {NoText, DescriptionText} \cup CommandTexts
DateInputs == {NoText, TitleText} \cup DateTexts \cup CommandTexts

\* bounds of the model: user u opens a conversation while fewer than MaxOpen
\* other users are in one; at most MaxEvents events are stored; at most
\* MaxSends reminders are delivered for one event; the clock stops at MaxNow;
\* the users send their first /start in the order of their ids (the handlers
\* treat all users alike)
MayRegister(u) == \A v \in Users : v < u => \E i \in 1..Len(users) : users[i].user_id = v
MayOpen(u) ==
    Cardinality({v \in Users \ {u} : conv[v].state # Idle}) < MaxOpen
MayCreate == Len(events) < MaxEvents
MaySend == scanQueue # <<>> /\ sent[Head(scanQueue)] < MaxSends
MayTick == now < MaxNow

Next ==
    \/ \E u \in Users, m \in Messages(CommandTexts) :
           MayRegister(u) /\ start_command(u, m)
    \/ \E u \in Users, m \in Messages(CommandTexts) :
           MayOpen(u) /\ create_event_start(u, m)
    \/ \E u \in Users, m \in Messages(CommandTexts) : upcoming_events(u, m)
    \/ \E u \in Users, m \in Messages(CommandTexts) : statistics(u, m)
    \/ \E u \in Users, m \in Messages(CommandTexts) : categories_menu(u, m)
    \/ \E u \in Users, m \in Messages(TitleInputs) : process_title(u, m)
    \/ \E u \in Users, m \in Messages(DescriptionInputs) : process_description(u, m)
    \/ \E u \in Users, m \in Messages(DateInputs) : process_date_time(u, m)
    \/ \E u \in Users : \E cb \in Callbacks(u), createOk, answerOk \in BOOLEAN :
           MayCreate /\ process_category(u, cb, createOk, answerOk)
    \/ \E u \in Users : \E cb \in Callbacks(u) :
           MayOpen(u) /\ add_category_start(u, cb)
    \/ \E u \in Users, m \in Messages(TitleInputs) : process_category_name(u, m)
    \/ reminder_query
    \/ \E sendOk, updateOk \in BOOLEAN :
           (sendOk => MaySend) /\ reminder_event(sendOk, updateOk)
    \/ reminder_sleep
    \/ MayTick /\ Tick

Spec == Init /\ [][Next]_vars

\* ------------------------------------------- specification: stored events
\* The query handlers over a database that already holds events: both users
\* have sent /start, and up to MaxStored events were created earlier.
MaxStored == 3

RegisteredUsers == UpsertUser(UpsertUser(<<>>, 1), 2)
RegisteredCategories == EnsureDefaults(EnsureDefaults(<<>>, 1, 1), 2, 1)

\* the _id of the category of user u with the given name
CategoryNamed(u, name) ==
    CHOOSE i \in 1..Len(RegisteredCategories) :
        RegisteredCategories[i].user_id = u /\ RegisteredCategories[i].name = name

\* an _id that no category document has: callback data "cat_<id>" is not
\* checked against db.categories before ObjectId(category_id) is stored
DanglingId == Len(RegisteredCategories) + 1

\* 2098-12-31 23:59, a minute of the month before the one the model starts in
LastMonth == 0 - 601

StoredEvent(u, date_time, category_id, created_at, notified) ==
    [user_id |-> u,
     title |-> TitleText,
     description |-> DescriptionText,
     date_time |-> date_time,
     category_id |-> category_id,
     created_at |-> created_at,
     notified |-> notified]

\* events that differ in what get_upcoming_events reads
UpcomingFamily ==
    {StoredEvent(u, d, CategoryNamed(u, "Work"), 0, n) :
        u \in Users, d \in {1, 2}, n \in BOOLEAN}

\* events that differ in what get_statistics reads
StatisticsFamily ==
    UNION {{StoredEvent(u, 1, c, t, FALSE) :
               c \in {CategoryNamed(u, "Work"), CategoryNamed(u, "Personal"),
                      DanglingId},
               t \in {LastMonth, 0}} : u \in Users}

SeqsUpTo(S, n) == UNION {[1..k -> S] : k \in 0..n}

StoredEvents ==
    SeqsUpTo(UpcomingFamily, MaxStored) \cup SeqsUpTo(StatisticsFamily, MaxStored)

InitStored ==
    /\ now = 0
    /\ conv = [u \in Users |-> Cleared]
    /\ users = RegisteredUsers
    /\ categories = RegisteredCategories
    /\ events \in StoredEvents
    /\ sent = [i \in 1..Len(events) |-> IF events[i].notified THEN 1 ELSE 0]
    /\ scanPc = "query"
    /\ scanQueue = <<>>
    /\ out = [text |-> "", list |-> <<>>]
    /\ shown = {}
    /\ pending = <<>>

NextStored ==
    \/ \E u \in Users, m \in Messages({UpcomingEventsText}) : upcoming_events(u, m)
    \/ \E u \in Users, m \in Messages({StatisticsText}) : statistics(u, m)
    \/ MayTick /\ Tick

SpecStored == InitStored /\ [][NextStored]_vars

\* --------------------------------------- specification: the reminder scanner
\* reminder_task over a database that already holds up to MaxDue events,
\* while user 1 may be about to commit a draft.  Here the two database reads
\* of reminder_task, which no try block covers, may raise as well.
MaxDue == 2

\* db.events.find(...).to_list(None) raises: the exception leaves
\* reminder_task (its local list of events is gone), and nothing restarts
\* the task
reminder_find_raises ==
    /\ scanPc = "query"
    /\ scanPc' = "dead"
    /\ scanQueue' = <<>>
    /\ Silent
    /\ UNCHANGED <<now, conv, users, categories, events, sent, shown, pending>>

\* db.categories.find_one(...) raises inside the for loop: the same
reminder_find_one_raises ==
    /\ scanPc = "loop"
    /\ scanQueue # <<>>
    /\ scanPc' = "dead"
    /\ scanQueue' = <<>>
    /\ Silent
    /\ UNCHANGED <<now, conv, users, categories, events, sent, shown, pending>>

\* unnotified events inside and outside the lookahead window, with and
\* without a category document
DueFamily ==
    UNION {{StoredEvent(u, d, c, 0, FALSE) :
               d \in {1, 7},
               c \in {CategoryNamed(u, "Work"), DanglingId}} : u \in Users}

\* a conversation that has reached AwaitingCategory with a full draft
Drafted(d) ==
    [state |-> AwaitingCategory,
     data |-> [title |-> TitleText,
               description |-> DescriptionText,
               date_time |-> [wall |-> d, off |-> 0]]]

InitScan ==
    /\ now = 0
    /\ \E c \in {Cleared, Drafted(1)} :
           conv = [u \in Users |-> IF u = 1 THEN c ELSE Cleared]
    /\ users = RegisteredUsers
    /\ categories = RegisteredCategories
    /\ events \in SeqsUpTo(DueFamily, MaxDue)
    /\ sent = [i \in 1..Len(events) |-> 0]
    /\ scanPc = "query"
    /\ scanQueue = <<>>
    /\ out = [text |-> "", list |-> <<>>]
    /\ shown = {u \in Users : conv[u].state = AwaitingCategory}
    /\ pending = <<>>

\* one step of the loop of reminder_task that returns normally
ScanStep ==
    \/ reminder_query
    \/ \E sendOk, updateOk \in BOOLEAN :
           ((sendOk /\ ~updateOk) => MaySend) /\ reminder_event(sendOk, updateOk)
    \/ reminder_sleep

NextScan ==
    \/ \E u \in Users : \E cb \in Callbacks(u), createOk, answerOk \in BOOLEAN :
           process_category(u, cb, createOk, answerOk)
    \/ ScanStep
    \/ reminder_find_raises
    \/ reminder_find_one_raises
    \/ MayTick /\ Tick

SpecScan == InitScan /\ [][NextScan]_vars

\* the reminder of event i is delivered and its notified update stored
Delivers(i) ==
    /\ scanQueue # <<>>
    /\ Head(scanQueue) = i
    /\ reminder_event(TRUE, TRUE)

\* the loop of reminder_task keeps running while it can (asyncio schedules
\* the task after every sleep), the clock advances, and a delivery that is
\* attempted again and again eventually succeeds
ScanFairness ==
    /\ WF_vars(ScanStep)
    /\ WF_vars(MayTick /\ Tick)
    /\ \A i \in 1..(MaxDue + 1) : SF_vars(Delivers(i))

SpecScanFair == SpecScan /\ ScanFairness

\* ------------------------------ specification: overlapping handler invocations
\* dp.start_polling handles each update in a task of its own and the FSM
\* storage is not locked per user, so an invocation of process_category that
\* waits for I/O lets another update of the same user be dispatched.  Here
\* process_category is split at its awaits of I/O; each user has at most
\* MaxPending invocations waiting.
MaxPending == 2

\* the filters pass (cat_ data, state category), state.get_data() returns
\* and create_event waits for insert_one
process_category_begin(u, cb) ==
    /\ IsCatData(cb.data)
    /\ conv[u].state = AwaitingCategory
    /\ IF ~cb.has_message
       THEN /\ Reply(u, "Error: Invalid callback data.")
            /\ UNCHANGED pending
       ELSE /\ pending' = Append(pending,
                               [user |-> u,
                                category_id |-> CategoryIdOf(cb.data),
                                data |-> conv[u].data,
                                pc |-> IF HasKeys(conv[u].data)
                                       THEN "insert" ELSE "failed"])
            /\ Silent
    /\ UNCHANGED <<now, conv, users, categories, events, sent, scanPc, scanQueue, shown>>

\* insert_one of invocation k returns (the event is stored, the confirmation
\* is being sent) or raises (the except branch sends the failure text)
process_category_inserted(k, createOk) ==
    /\ k \in 1..Len(pending)
    /\ pending[k].pc = "insert"
    /\ LET t == pending[k]
       IN IF createOk
          THEN /\ create_event(t.user, t.data.title, t.data.description,
                               t.data.date_time, t.category_id)
               /\ pending' = [pending EXCEPT ![k].pc = "answer"]
          ELSE /\ UNCHANGED <<events, sent>>
               /\ pending' = [pending EXCEPT ![k].pc = "failed"]
    /\ Silent
    /\ UNCHANGED <<now, conv, users, categories, scanPc, scanQueue, shown>>

RemoveAt(seq, k) == SubSeq(seq, 1, k - 1) \o SubSeq(seq, k + 1, Len(seq))

\* the reply invocation k waits for is done: a confirmation that raises
\* leads to the except branch; otherwise state.clear() follows and the
\* invocation ends
process_category_replied(k, answerOk) ==
    /\ k \in 1..Len(pending)
    /\ pending[k].pc \in {"answer", "failed"}
    /\ LET t == pending[k]
       IN IF t.pc = "answer" /\ ~answerOk
          THEN /\ pending' = [pending EXCEPT ![k].pc = "failed"]
               /\ Silent
               /\ UNCHANGED conv
          ELSE /\ pending' = RemoveAt(pending, k)
               /\ conv' = [conv EXCEPT ![t.user] = Cleared]
               /\ IF t.pc = "answer"
                  THEN Reply(t.user, "Event created successfully!")
                  ELSE Reply(t.user, "Failed to create event. Please try again.")
    /\ UNCHANGED <<now, users, categories, events, sent, scanPc, scanQueue, shown>>

InitOverlap ==
    /\ now = 0
    /\ conv \in [Users -> {Cleared, Drafted(1)}]
    /\ users = RegisteredUsers
    /\ categories = RegisteredCategories
    /\ events = <<>>
    /\ sent = <<>>
    /\ scanPc = "query"
    /\ scanQueue = <<>>
    /\ out = [text |-> "", list |-> <<>>]
    /\ shown = {u \in Users : conv[u].state = AwaitingCategory}
    /\ pending = <<>>

MayBegin(u) ==
    Cardinality({k \in 1..Len(pending) : pending[k].user = u}) < MaxPending

NextOverlap ==
    \/ \E u \in Users : \E cb \in Callbacks(u) :
           MayBegin(u) /\ process_category_begin(u, cb)
    \/ \E k \in 1..Len(pending), createOk \in BOOLEAN :
           process_category_inserted(k, createOk)
    \/ \E k \in 1..Len(pending), answerOk \in BOOLEAN :
           process_category_replied(k, answerOk)

SpecOverlap == InitOverlap /\ [][NextOverlap]_vars

\* ------------------------------------------------------------------ claims
AllTexts == TitleInputs \cup DescriptionInputs \cup DateInputs
AllMessages == Messages(AllTexts)
DateMessages == Messages(DateInputs)
MenuMessages == Messages(MenuTexts)

\* the dispatcher handles message m of user u (by whichever handler Route
\* selects)
DispatchMessage(u, m) ==
    LET handler == Route(u, m)
    IN CASE handler = "start_command" -> start_command(u, m)
         [] handler = "create_event_start" -> create_event_start(u, m)
         [] handler = "upcoming_events" -> upcoming_events(u, m)
         [] handler = "statistics" -> statistics(u, m)
         [] handler = "categories" -> categories_menu(u, m)
         [] handler = "process_title" -> process_title(u, m)
         [] handler = "process_description" -> process_description(u, m)
         [] handler = "process_date_time" -> process_date_time(u, m)
         [] OTHER -> process_category_name(u, m)

Range(seq) == {seq[i] : i \in 1..Len(seq)}

InstantOf(text) == parse_date(text).wall - parse_date(text).off

\* C2: in AwaitingDateTime every non-empty input that parses as a date-time
\* strictly later than now, with or without an offset, is stored in the draft
\* and moves the conversation to AwaitingCategory.
C2_FutureDateAdvances ==
    [][\A u \in Users : conv[u].state = AwaitingDateTime =>
       \A m \in DateMessages :
        (/\ m.text \notin CommandTexts
         /\ m.text # NoText
         /\ parse_date(m.text).ok
         /\ InstantOf(m.text) > now
         /\ DispatchMessage(u, m))
        => /\ conv'[u].state = AwaitingCategory
           /\ conv'[u].data.date_time # UnsetDate
           /\ conv'[u].data.date_time.wall - conv'[u].data.date_time.off
                  = InstantOf(m.text)
    ]_vars

\* C3: every stored event is scheduled strictly later than the instant it was
\* created.
C3_ScheduledAfterCreation ==
    \A i \in 1..Len(events) : events[i].date_time > events[i].created_at

\* the block the listing shows for event e: its title, description, the name
\* of its category and its date-time (UTC, to the minute)
ShownAs(e) ==
    [title |-> e.title,
     category |-> categories[e.category_id].name,
     time |-> Fmt(e.date_time),
     description |-> e.description]

\* C4 as stated: every upcoming-events listing of user u contains a block for
\* each event of u whose date-time is still in the future, whatever scanner
\* cycles ran before.
C4_ListedWhileInFuture ==
    [][\A u \in Users, m \in MenuMessages :
        (m.text = UpcomingEventsText /\ DispatchMessage(u, m))
        => \A i \in 1..Len(events) :
              (events[i].user_id = u /\ events[i].date_time > now)
              => ShownAs(events[i]) \in Range(out'.list)
    ]_vars

\* C4 amended: every upcoming-events listing of user u contains a block for
\* each event of u whose date-time is not before now and which the scanner
\* has not marked notified.
C4_ListedWhileInFutureAndNotNotified ==
    [][\A u \in Users, m \in MenuMessages :
        (m.text = UpcomingEventsText /\ DispatchMessage(u, m))
        => \A i \in 1..Len(events) :
              (/\ events[i].user_id = u
               /\ events[i].date_time >= now
               /\ ~events[i].notified)
              => ShownAs(events[i]) \in Range(out'.list)
    ]_vars

C4_Witness ==
    /\ out.text = "Upcoming Events:"
    /\ Len(out.list) = 1
    /\ Len(events) = 1
    /\ out.list[1].title = TitleText
    /\ out.list[1].category = "Work"
    /\ sent[1] > 0

\* C5 as stated: a reminder for an event is delivered at most once.
C5_DeliveredAtMostOnce ==
    \A i \in 1..Len(events) : sent[i] <= 1

\* C5 amended: once an event's notified flag is true, no later step delivers
\* a reminder for it and no cycle selects it.
C5_NoDeliveryOnceNotified ==
    [][\A i \in 1..Len(events) :
        events[i].notified
        => /\ sent'[i] = sent[i]
           /\ i \notin Range(scanQueue')
    ]_vars

C5_Witness ==
    \E i \in 1..Len(events) :
        /\ events[i].notified
        /\ sent[i] = 1
        /\ events[i].date_time <= now + LOOKAHEAD
        /\ scanPc = "loop"
        /\ scanQueue = <<>>
        /\ now > events[i].created_at

\* C6: an event is stored with notified = FALSE, and an event whose notified
\* flag is true keeps it true in every step.
C6_NotifiedMonotone ==
    [][/\ Len(events') >= Len(events)
       /\ \A i \in 1..Len(events) : events[i].notified => events'[i].notified
       /\ \A i \in (Len(events) + 1)..Len(events') : ~events'[i].notified
    ]_vars

C6_Witness ==
    \E i \in 1..Len(events) : events[i].notified /\ scanPc = "query"

\* the effect C7 states for a message m in AwaitingTitle / AwaitingDescription
C7_Effect(u, m) ==
    /\ conv[u].state = AwaitingTitle =>
          IF m.text # NoText
          THEN /\ conv'[u].state = AwaitingDescription
               /\ conv'[u].data = [conv[u].data EXCEPT !.title = m.text]
          ELSE /\ conv'[u] = conv[u]
               /\ out'.text = "Title cannot be empty. Please enter a title:"
    /\ conv[u].state = AwaitingDescription =>
          IF m.text # NoText
          THEN /\ conv'[u].state = AwaitingDateTime
               /\ conv'[u].data = [conv[u].data EXCEPT !.description = m.text]
          ELSE /\ conv'[u] = conv[u]
               /\ out'.text = "Description cannot be empty. Please enter a description:"

\* C7 as stated: in AwaitingTitle (AwaitingDescription) every message with
\* non-empty text is stored as title (description) and advances one state,
\* every message without text changes nothing and re-prompts.
C7_EveryTextAdvances ==
    [][\A u \in Users : conv[u].state \in {AwaitingTitle, AwaitingDescription} =>
       \A m \in AllMessages :
        DispatchMessage(u, m)
        => C7_Effect(u, m)
    ]_vars

\* C7 amended: the same for every message other than /start and the four
\* menu texts.
C7_NonCommandTextAdvances ==
    [][\A u \in Users : conv[u].state \in {AwaitingTitle, AwaitingDescription} =>
       \A m \in AllMessages :
        (m.text \notin CommandTexts /\ DispatchMessage(u, m))
        => C7_Effect(u, m)
    ]_vars

C7_Witness ==
    \E u \in Users :
        /\ conv[u].state = AwaitingDateTime
        /\ conv[u].data.title = TitleText
        /\ conv[u].data.description = DescriptionText
        /\ out.text = "Enter the event date and time (e.g., 2025-06-15 14:30):"

\* an input C8 is about: empty, unparsable, or an instant before now
C8_Rejected(text) ==
    \/ text = NoText
    \/ ~parse_date(text).ok
    \/ InstantOf(text) < now

C9_MenuResets ==
    [][\A u \in Users, m \in MenuMessages :
        DispatchMessage(u, m)
        => /\ conv'[u].data = EmptyData
           /\ conv'[u].state =
                  IF m.text = CreateEventText THEN AwaitingTitle ELSE Idle
    ]_vars

C9_Witness ==
    \E u \in Users :
        /\ conv[u] = [state |-> AwaitingTitle, data |-> EmptyData]
        /\ out.text = "Enter the event title:"
        /\ Len(events) = 1
        /\ events[1].user_id = u

\* C10: in the add-category state a message whose text is non-empty after
\* trimming stores one new category of the sender and returns to Idle; an
\* empty message re-prompts and leaves the state unchanged.
C10_CategoryNameStored ==
    [][\A u \in Users : conv[u].state = AddCategory =>
       \A m \in AllMessages :
        (m.text \notin CommandTexts /\ DispatchMessage(u, m))
        => IF strip(m.text) # ""
           THEN /\ categories' = Append(categories,
                                        [user_id |-> u, name |-> strip(m.text)])
                /\ conv'[u].state = Idle
           ELSE /\ conv'[u] = conv[u]
                /\ out'.text = "Category name cannot be empty. Try again:"
    ]_vars

\* C11: the "add category" button pressed in AwaitingCategory (on a message
\* the bot sent) moves the conversation to the add-category state; from that
\* state a step leads only to the same state, to Idle or to AwaitingTitle and
\* stores no event of that user; AwaitingTitle always has an empty draft, and
\* AwaitingDescription, AwaitingDateTime and AwaitingCategory are entered
\* only from the state before them.
C11_DivertedDraftNeverCommitted ==
    [][\A u \in Users :
        /\ conv[u].state = AwaitingCategory =>
              \A cb \in Callbacks(u) :
                  (cb.data = AddCategoryData /\ cb.has_message
                       /\ add_category_start(u, cb))
                  => /\ conv'[u].state = AddCategory
                     /\ events' = events
        /\ conv[u].state = AddCategory =>
              /\ conv'[u].state \in {AddCategory, Idle, AwaitingTitle}
              /\ \A i \in (Len(events) + 1)..Len(events') : events'[i].user_id # u
        /\ conv'[u].state = AwaitingTitle => conv'[u].data = EmptyData
        /\ (conv'[u].state = AwaitingDescription /\ conv[u].state # AwaitingDescription)
              => conv[u].state = AwaitingTitle
        /\ (conv'[u].state = AwaitingDateTime /\ conv[u].state # AwaitingDateTime)
              => conv[u].state = AwaitingDescription
        /\ (conv'[u].state = AwaitingCategory /\ conv[u].state # AwaitingCategory)
              => conv[u].state = AwaitingDateTime
    ]_vars

C11_Witness ==
    \E u \in Users :
        /\ conv[u].state = AddCategory
        /\ HasKeys(conv[u].data)
        /\ out.text = "Enter the new category name:"

\* C12: a registered user has exactly one user record and, for each of the
\* four default names, exactly one category of that name.
C12_RegistrationIdempotent ==
    \A u \in Users :
        (\E i \in 1..Len(users) : users[i].user_id = u)
        => /\ Cardinality({i \in 1..Len(users) : users[i].user_id = u}) = 1
           /\ \A name \in {"Work", "Personal", "Health", "Other"} :
                 Cardinality({i \in 1..Len(categories) :
                                 /\ categories[i].user_id = u
                                 /\ categories[i].name = name}) = 1

\* the only registered user has created an event (so /start had run before)
\* and has just sent /start again
C12_Witness ==
    /\ Len(users) = 1
    /\ Len(events) = 1
    /\ events[1].user_id = users[1].user_id
    /\ out.text = "Welcome to the Event Reminder Bot!"
    /\ Len(categories) = 4

\* C13: a commit step (process_category on a message the bot sent) always
\* leaves the conversation Idle with an empty draft, and when it reports
\* "Failed to create event" it has stored no event.
C13_FailureMeansNoEvent ==
    [][\A u \in Users : conv[u].state = AwaitingCategory =>
       \A cb \in Callbacks(u), createOk, answerOk \in BOOLEAN :
        (cb.has_message /\ process_category(u, cb, createOk, answerOk))
        => /\ conv'[u] = Cleared
           /\ out'.text = "Failed to create event. Please try again."
                 => events' = events
    ]_vars

\* C14: get_upcoming_events(u) lists, each once and in ascending order of
\* date_time, exactly the events of u with date_time >= now and
\* notified = FALSE.
C14_UpcomingExact ==
    \A u \in Users :
        LET r == get_upcoming_events(u)
            want == {i \in 1..Len(events) :
                        /\ events[i].user_id = u
                        /\ events[i].date_time >= now
                        /\ events[i].notified = FALSE}
        IN /\ Range(r) = want
           /\ Len(r) = Cardinality(want)
           /\ \A j, k \in 1..Len(r) :
                 j < k => events[r[j]].date_time <= events[r[k]].date_time

\* user u is shown two events, the later stored one first, while a third
\* stored event is left out
C14_Witness ==
    \E u \in Users :
        /\ Len(events) = 3
        /\ get_upcoming_events(u) = <<2, 1>>
        /\ events[2].date_time < events[1].date_time
        /\ out.text = "Upcoming Events:"
        /\ Len(out.list) = 2
        /\ out.list[1].time = Fmt(events[2].date_time)
        /\ out.list[2].time = Fmt(events[1].date_time)

\* the calendar month of instant t (months of 31 days, as December 2098 and
\* January 2099 are)
MonthOf(t) == (t + 600) \div (31 * 24 * 60)

EventsOf(u) == {i \in 1..Len(events) : events[i].user_id = u}
CountIn(u, c) == Cardinality({i \in EventsOf(u) : events[i].category_id = c})

\* events_this_month as C15 states it
C15_ThisMonth(u) ==
    Cardinality({i \in EventsOf(u) : MonthOf(events[i].created_at) >= MonthOf(now)})

C16_NotifiedOnlyAfterDelivery ==
    [][/\ \A i \in 1..Len(events) :
            (~events[i].notified /\ events'[i].notified)
            => /\ scanPc = "loop"
               /\ scanQueue # <<>>
               /\ Head(scanQueue) = i
               /\ CategoryExists(events[i].category_id)
               /\ sent'[i] = sent[i] + 1
       /\ \A sendOk, updateOk \in BOOLEAN :
            (/\ reminder_event(sendOk, updateOk)
             /\ ~sendOk \/ ~CategoryExists(events[Head(scanQueue)].category_id))
            => /\ ~events'[Head(scanQueue)].notified
               /\ sent' = sent
       /\ now' >= now
       /\ \A i \in 1..Len(events) : events'[i].date_time = events[i].date_time
       /\ \A i \in Range(scanQueue) : events[i].date_time <= now + LOOKAHEAD
       /\ (scanPc = "query" /\ scanPc' = "loop")
            => \A i \in 1..Len(events) :
                  (~events[i].notified /\ events[i].date_time <= now + LOOKAHEAD)
                  => i \in Range(scanQueue')
    ]_vars

\* an event whose reminder went out in an earlier cycle without the flag
\* being stored is selected again, next to an event without category
C16_Witness ==
    \E i, j \in 1..Len(events) :
        /\ scanPc = "loop"
        /\ scanQueue = <<i, j>>
        /\ sent[i] = 1
        /\ ~events[i].notified
        /\ events[j].category_id = DanglingId
        /\ now > 0

\* C17: no error ends the scanner loop (and so none leaves the events
\* selected by a cycle unprocessed).
C17_ScannerKeepsRunning ==
    scanPc # "dead"

\* C18: a cycle selects exactly the events, of all users, with
\* notified = FALSE and date_time <= now + 5 minutes; until the next cycle
\* the selection only shrinks, and a reminder is sent only for the selected
\* event at the head of the loop.
C18_CycleSelectsDue ==
    [][/\ (scanPc = "query" /\ scanPc' = "loop")
            => LET due == {i \in 1..Len(events) :
                              /\ events[i].notified = FALSE
                              /\ events[i].date_time <= now + LOOKAHEAD}
               IN /\ Range(scanQueue') = due
                  /\ Len(scanQueue') = Cardinality(due)
       /\ ~(scanPc = "query" /\ scanPc' = "loop")
            => Range(scanQueue') \subseteq Range(scanQueue)
       /\ \A i \in 1..Len(events) :
            sent'[i] # sent[i]
            => /\ scanQueue # <<>>
               /\ i = Head(scanQueue)
               /\ events[i].date_time <= now + LOOKAHEAD
    ]_vars

\* an event committed after the clock moved is in the selection of a cycle,
\* an event outside the window is not
C18_Witness ==
    \E k, j \in 1..Len(events) :
        /\ scanPc = "loop"
        /\ events[k].created_at > 0
        /\ k \in Range(scanQueue)
        /\ events[j].date_time > now + LOOKAHEAD
        /\ ~events[j].notified
        /\ j \notin Range(scanQueue)

\* C19: one draft yields at most one event (in SpecOverlap every user has at
\* most one draft, so every user has at most one event), however the
\* deliveries of the category callback overlap.
C19_OneEventPerDraft ==
    \A u \in Users :
        Cardinality({i \in 1..Len(events) : events[i].user_id = u}) <= 1

\* C20: under the fairness of ScanFairness every stored event whose category
\* exists eventually has notified = TRUE (every date-time of the model comes
\* within the lookahead window).
C20_EventuallyNotified ==
    \A i \in 1..(MaxDue + 1) :
        (i \in 1..Len(events) /\ CategoryExists(events[i].category_id))
        ~> (i \in 1..Len(events) /\ events[i].notified)

====
